---- MODULE Spec2Model ----
(***************************************************************************)
(* A model of the compysition actor runtime: Actor (actor.py), Director    *)
(* (director.py) and the WSGI source actor (actors/wsgi.py).  The Queue,   *)
(* QueuePool and RestartPool classes are imported by actor.py but are not  *)
(* part of the source tree; they are modelled from their contracts.        *)
(*                                                                         *)
(* Scheduling is gevent's: cooperative, one greenlet at a time.  Every     *)
(* action below is the run of one greenlet from one suspension point to    *)
(* the next; which ready greenlet runs next is left open.                  *)
(***************************************************************************)
EXTENDS Integers, Sequences, FiniteSets, Bags, TLC

\* ------------------------------------------------------------------ bounds
\* Director(size=...): the capacity handed to every actor's QueuePool.
QueueSize == 2
\* The Director size of the scenario that congests a pipeline.
SmallQueueSize == 1
\* The number of events the external producer injects.
MaxEvents == 3
\* The number of connect_queue calls explored by the wiring specification.
MaxCalls == 3
\* How many rounds of metrics an emitter that has something to report makes.
MaxRounds == 2

\* ------------------------------------------------------------------- names
NoQueue == 0
NoActor == "none"

ReservedNames == {"logs", "metrics", "failed"}
UserActors == {"a", "b", "c"}
NullActors == {"null_logs", "null_metrics", "null_faileds"}
Actors == UserActors \cup NullActors
Names == ReservedNames \cup {"inbox", "outbox", "errors"} \cup UserActors
Scopes == {"reserved", "outbound", "error", "inbound"}

VARIABLES
    pool,       \* actor -> scope -> name -> queue id (NoQueue: no entry)
    queue,      \* queue id -> [name, cap, items]: the heap of Queue objects
    worker,     \* the restartable __consumer workers spawned so far
    call,       \* the last connect_queue call and its outcome
    wired,      \* the edges wired with success so far
    ncalls,     \* how many connect_queue calls were made
    loop,       \* actor -> Actor.__loop
    run,        \* actor -> whether the started gate Actor.__run is set
    task,       \* the __do_consume executions that are spawned or suspended
    prod,       \* the external greenlet injecting events at the source actor
    dir,        \* the Director: its sinks, flags and its place in start/stop
    cfg,        \* the scenario: consume behaviours, blocking flags, dict order
    began,      \* actor -> the event ids in the order their consume calls began
    sendLog,    \* per finished send_event call: targets and events enqueued
    discarded,  \* the events a __submit gave up on, and who was sending
    errlog      \* actor -> the ids of the events whose consume raised and was logged

wirevars == <<call, wired, ncalls>>
runvars == <<loop, run, task, prod, dir, cfg, began, sendLog, discarded, errlog>>
vars == <<pool, queue, worker, call, wired, ncalls,
          loop, run, task, prod, dir, cfg, began, sendLog, discarded, errlog>>

\* The three structures the wiring code reads and writes, as one value.
World == [pool |-> pool, queue |-> queue, worker |-> worker]

\* --------------------------------------------------------- Queue, QueuePool
NewQueue(name, size) == [name |-> name, cap |-> size, items |-> <<>>]

EmptyScope == [n \in Names |-> NoQueue]

\* QueuePool(size): empty inbound, outbound and error mappings and the three
\* reserved outbound queues, whose ids are first, first+1, first+2.
NewPool(first, size) ==
    [size |-> size,
     reserved |-> [n \in Names |->
                     CASE n = "logs" -> first
                       [] n = "metrics" -> first + 1
                       [] n = "failed" -> first + 2
                       [] OTHER -> NoQueue],
     outbound |-> EmptyScope,
     error |-> EmptyScope,
     inbound |-> EmptyScope]

\* add_outbound_queue / add_error_queue / add_inbound_queue(name, queue=None):
\* adopt the given Queue object, else create a fresh bounded one; install it
\* under name.
AddQueue(w, a, scope, name, q) ==
    LET qid == IF q = NoQueue THEN Len(w.queue) + 1 ELSE q
        qs == IF q = NoQueue
              THEN Append(w.queue, NewQueue(name, w.pool[a].size)) ELSE w.queue
    IN [w EXCEPT !.queue = qs, !.pool[a][scope][name] = qid]

\* move_queue(src, dst, queue_scope): dst replaces src in the scope under the
\* same name, and what src still holds is drained into dst.
MoveQueue(w, a, scope, src, dst) ==
    LET moved == [n \in Names |->
                    IF w.pool[a][scope][n] = src THEN dst ELSE w.pool[a][scope][n]]
        qs == IF src = dst THEN w.queue
              ELSE [w.queue EXCEPT ![dst].items = @ \o w.queue[src].items,
                                   ![src].items = <<>>]
    IN [w EXCEPT !.pool[a][scope] = moved, !.queue = qs]

\* ------------------------------------------------------------ Actor wiring
\* RestartPool.spawn(self.__consumer, self.consume, queue): a restartable
\* worker bound to the queue; it first waits for the started gate.
SpawnConsumer(w, a, q) ==
    [w EXCEPT !.worker = Append(@, [actor |-> a, q |-> q, pc |-> "wait_run"])]

register_consumer(w, a, name, q) ==
    SpawnConsumer(AddQueue(w, a, "inbound", name, q), a, q)

\* connect_queue, lines 92-96: the source is looked up in the reserved
\* queues first, else in the plain outbound queues; the error queues are
\* not looked at.
SourceScope(w, S, sn) ==
    IF w.pool[S].reserved[sn] # NoQueue THEN "reserved" ELSE "outbound"

SourceQueue(w, S, sn) == w.pool[S][SourceScope(w, S, sn)][sn]

DestinationQueue(w, D, dn) == w.pool[D].inbound[dn]

\* A faulty variant of the test below: only the source endpoint is looked at.
CheckSourceOnly(w, S, sn, D, dn) == SourceQueue(w, S, sn) # NoQueue

\* connect_queue, lines 100-105: what makes check_existing raise.
AlreadyConnected(w, S, sn, D, dn) ==
    \/ SourceQueue(w, S, sn) # NoQueue
    \/ DestinationQueue(w, D, dn) # NoQueue

\* connect_queue, lines 107-119: the producer holds no queue under sn.
ConnectNewSource(w, S, sn, D, dn, error_queue) ==
    LET scope == IF error_queue THEN "error" ELSE "outbound"
        dq == DestinationQueue(w, D, dn)
    IN IF dq = NoQueue
       THEN LET w1 == AddQueue(w, S, scope, sn, NoQueue)
            IN register_consumer(w1, D, dn, w1.pool[S][scope][sn])
       ELSE AddQueue(w, S, scope, sn, dq)

\* A faulty variant of the branch below: the destination queue is not moved.
ConnectExistingNoMove(w, S, sn, D, dn) ==
    IF DestinationQueue(w, D, dn) = NoQueue
    THEN register_consumer(w, D, dn, SourceQueue(w, S, sn))
    ELSE w

\* connect_queue, lines 121-125: the producer already holds a queue under sn.
ConnectExistingSource(w, S, sn, D, dn) ==
    LET sq == SourceQueue(w, S, sn)
        dq == DestinationQueue(w, D, dn)
    IN IF dq = NoQueue
       THEN register_consumer(w, D, dn, sq)
       ELSE MoveQueue(w, S, SourceScope(w, S, sn), sq, dq)

\* Actor.connect_queue: the result is the world after the call and whether
\* QueueConnected was raised (then nothing was touched).
connect_queue(w, S, sn, D, dn, error_queue, check_existing) ==
    IF check_existing /\ AlreadyConnected(w, S, sn, D, dn)
    THEN [raised |-> TRUE, w |-> w]
    ELSE [raised |-> FALSE,
          w |-> IF SourceQueue(w, S, sn) = NoQueue
                THEN ConnectNewSource(w, S, sn, D, dn, error_queue)
                ELSE ConnectExistingSource(w, S, sn, D, dn)]

\* Actor.connect_error_queue: connect_queue with error_queue=True.
connect_error_queue(w, S, sn, D, dn, check_existing) ==
    connect_queue(w, S, sn, D, dn, TRUE, check_existing)

\* ------------------------------------------------------------ construction
ActorOrder == <<"a", "b", "c", "null_metrics", "null_logs", "null_faileds">>

ActorIndex(a) == CHOOSE i \in 1..Len(ActorOrder) : ActorOrder[i] = a

\* Director.__init__ and register_actor: every actor is constructed with its
\* QueuePool; nothing is wired and no worker exists.
Constructed(size) ==
    [pool |-> [a \in Actors |-> NewPool(3 * (ActorIndex(a) - 1) + 1, size)],
     queue |-> [i \in 1..(3 * Len(ActorOrder)) |->
                  NewQueue(CASE i % 3 = 1 -> "logs"
                             [] i % 3 = 2 -> "metrics"
                             [] OTHER -> "failed", size)],
     worker |-> <<>>]

\* ------------------------------------------------------------------ events
\* An event object: its event id, the chain of deep copies that made it (the
\* object's identity) and how often it was rescued.
NewEvent(n) == [id |-> n, copy |-> <<>>, tries |-> 0]

\* deepcopy(event) for the i-th target of a fan-out by actor a: an equal
\* event that is another object.
DeepCopy(ev, a, i) == [ev EXCEPT !.copy = Append(@, 10 * ActorIndex(a) + i)]

\* ------------------------------------------------------- the running system
\* What the greenlets read and write while the graph runs, as one value.
Store == [queue |-> queue, worker |-> worker, task |-> task, prod |-> prod,
          began |-> began, sendLog |-> sendLog, discarded |-> discarded,
          errlog |-> errlog]

Commit(st) ==
    /\ queue' = st.queue
    /\ worker' = st.worker
    /\ task' = st.task
    /\ prod' = st.prod
    /\ began' = st.began
    /\ sendLog' = st.sendLog
    /\ discarded' = st.discarded
    /\ errlog' = st.errlog

\* Queue.put fails "full" when the queue is bounded and at capacity.
Full(qr) == qr.cap > 0 /\ Len(qr.items) >= qr.cap

\* set() of a waiter: every greenlet blocked in that wait on queue q resumes.
WakeWorkers(st, q) ==
    [st EXCEPT !.worker =
        [i \in DOMAIN st.worker |->
            IF st.worker[i].q = q /\ st.worker[i].pc = "wait_content"
            THEN [st.worker[i] EXCEPT !.pc = "ready"]
            ELSE st.worker[i]]]

WakeSenders(st, q, from, to) ==
    [st EXCEPT
        !.task = {IF t.pc = from /\ t.wq = q THEN [t EXCEPT !.pc = to] ELSE t
                    : t \in st.task},
        !.prod = IF st.prod.pc = from /\ st.prod.wq = q
                 THEN [st.prod EXCEPT !.pc = to] ELSE st.prod]

\* The metric emitters blocked in wait_until_empty on queue q resume.
WakeEmitters(st, q) ==
    [st EXCEPT !.worker =
        [i \in DOMAIN st.worker |->
            IF st.worker[i].pc = "m_wait_empty" /\ st.worker[i].wq = q
            THEN [st.worker[i] EXCEPT !.pc = "m_ready"]
            ELSE st.worker[i]]]

\* Queue.put(e) on a queue that is not full: append at the tail, signal
\* non_empty.
Put(st, q, e) == WakeWorkers([st EXCEPT !.queue[q].items = Append(@, e)], q)

\* Queue.get() on a queue that is not empty: pop the head; non_full is
\* signalled when the size drops below the capacity, and the wait for a
\* drained queue ends when the size drops to zero.
Get(st, q) ==
    LET st1 == [st EXCEPT !.queue[q].items = Tail(@)]
        n == Len(st1.queue[q].items)
        st2 == IF n < st1.queue[q].cap
               THEN WakeSenders(st1, q, "wait_free", "freed") ELSE st1
    IN IF n = 0
       THEN WakeEmitters(WakeSenders(st2, q, "wait_empty", "retry"), q)
       ELSE st2

\* Queue.rescue(e): reinsert at the head; no waiter is signalled and the
\* capacity is not looked at.
Rescue(st, q, e) ==
    [st EXCEPT !.queue[q].items = <<[e EXCEPT !.tries = @ + 1]>> \o @]

\* ----------------------------------------------------------- Actor: sending
NameOrder == <<"a", "b", "c", "inbox", "outbox", "errors",
               "logs", "metrics", "failed">>

\* self.pool.outbound_queues.values(): the plain outbound queues, in the
\* dict's (arbitrary but fixed) order.
RECURSIVE Values(_, _)
Values(scope, i) ==
    IF i > Len(NameOrder) THEN <<>>
    ELSE (IF scope[NameOrder[i]] # NoQueue THEN <<scope[NameOrder[i]]>> ELSE <<>>)
         \o Values(scope, i + 1)

OutboundQueues(a) == Values(pool[a].outbound, 1)

\* A faulty variant of the list below: without error queues the plain
\* outbound queues are taken.
ErrorQueuesOrOutbound(a) ==
    IF Values(pool[a].error, 1) = <<>> THEN OutboundQueues(a)
    ELSE Values(pool[a].error, 1)

\* send_error, lines 188-189: self.pool.error_queues.values().
ErrorQueues(a) == Values(pool[a].error, 1)

\* A faulty variant of the step below: a full queue makes __submit give up.
SubmitGivesUpWhenFull(lp, full) ==
    IF ~lp \/ full THEN "skip" ELSE "put"

\* __submit, lines 211-216: with the loop flag down nothing is put and the
\* call returns; on QueueFull the sender waits for the queue to drain and
\* tries again; else the event is put.
SubmitStep(lp, full) ==
    IF ~lp THEN "skip" ELSE IF full THEN "wait" ELSE "put"

\* __loop_submit from its c.i-th target on, up to the first wait or to the
\* end: the first target gets the event itself, each later one a deep copy.
\* c counts the targets done (i), the puts (nput) and the give-ups (lost).
RECURSIVE loop_submit(_, _, _, _, _, _)
loop_submit(st, c, a, tq, ev, who) ==
    IF c.i > Len(tq) THEN [st |-> st, c |-> c]
    ELSE LET q == tq[c.i]
             e == IF c.i = 1 THEN ev ELSE DeepCopy(ev, a, c.i)
             step == SubmitStep(loop[a], Full(st.queue[q]))
         IN CASE step = "skip" ->
                   loop_submit([st EXCEPT !.discarded = @ \cup {[ev |-> e, by |-> who]}],
                               [c EXCEPT !.i = @ + 1, !.lost = @ + 1],
                               a, tq, ev, who)
              [] step = "wait" -> [st |-> st, c |-> c]
              [] OTHER ->
                   loop_submit(Put(st, q, e),
                               [c EXCEPT !.i = @ + 1, !.nput = @ + 1],
                               a, tq, ev, who)

\* send_event returns.  No path of lines 168-218 raises to the caller for a
\* lack of targets: __loop_submit swallows the StopIteration of an empty
\* iterator (lines 205-206).
LogSend(st, tq, c) ==
    [st EXCEPT !.sendLog = @ \cup {[targets |-> Len(tq), put |-> c.nput,
                                      raised |-> FALSE]}]

\* -------------------------------------------------- Actor: metric emitter
\* The id of a metric record; events have the ids 1, 2, ...
MetricId == 0

\* The stat names of Queue.stats().
Stats == <<"size">>

\* __metric_emitter, line 278: the record of stat k of a round of actor a.
MetricRecord(a, k) ==
    [id |-> MetricId, copy |-> <<>>, tries |-> 0, metric |-> <<a, k>>]

IsMetric(e) == e.id = MetricId

\* Actor.start, line 146: self.threads.spawn(self.__metric_emitter).
SpawnEmitter(ws, a) ==
    Append(ws, [actor |-> a, q |-> NoQueue, pc |-> "m_wait_run", n |-> 0,
                k |-> 1, wq |-> NoQueue])

\* A faulty variant of the test below: the emitter is spawned whatever the
\* flag.
EmitterAlwaysSpawned == TRUE

\* Actor.start, line 145, and Director.__create_actor, line 136: every actor
\* the Director creates gets the Director's generate_metrics flag.
GenerateMetrics == cfg.generate_metrics

\* __metric_emitter, lines 273-282, from record k of a round on, up to the
\* next suspension: one record per outbound queue and stat is put on the
\* actor's reserved metrics queue while the loop flag is up; on QueueFull
\* the emitter waits until that queue is empty; after the round it sleeps.
RECURSIVE emit(_, _, _)
emit(st, i, k) ==
    LET a == st.worker[i].actor
        mq == pool[a].reserved["metrics"]
        total == Len(OutboundQueues(a)) * Len(Stats)
    IN IF k > total
       THEN [st EXCEPT !.worker[i].pc = "m_sleep", !.worker[i].k = 1,
                       !.worker[i].n = IF total > 0 THEN @ + 1 ELSE @]
       ELSE IF ~loop[a] THEN emit(st, i, k + 1)
       ELSE IF Full(st.queue[mq])
       THEN [st EXCEPT !.worker[i].pc = "m_wait_empty", !.worker[i].k = k,
                       !.worker[i].wq = mq]
       ELSE emit(Put(st, mq, MetricRecord(a, k)), i, k + 1)

\* __metric_emitter, line 272: a round begins if the loop flag is up, else
\* the greenlet ends.
emit_round(st, i) ==
    IF loop[st.worker[i].actor] THEN emit(st, i, 1)
    ELSE [st EXCEPT !.worker[i].pc = "done"]

\* ------------------------------------------------------- Actor: consuming
NewTask(a, q, e, w) ==
    [actor |-> a, q |-> q, ev |-> e, pc |-> "spawned", i |-> 1, nput |-> 0,
     lost |-> 0, wq |-> NoQueue, w |-> w, seq |-> 0, err |-> FALSE]

\* The place of actor a's next spawned __do_consume greenlet in the order
\* its consume calls begin: gevent starts spawned greenlets in spawn order.
SpawnSeq(st, a) ==
    Len(st.began[a])
        + Cardinality({t \in st.task : t.actor = a /\ t.pc = "spawned"}) + 1

\* __do_consume returns: a spawned greenlet ends; a blocking worker goes on
\* with its loop.
Finish(st, t) ==
    IF t.w = 0 THEN st ELSE [st EXCEPT !.worker[t.w].pc = "ready"]

\* send_event, lines 178-182, on the queues tq: run the fan-out until it is
\* done or has to wait for a full queue to drain.
Fanout(st, t, tq) ==
    LET r == loop_submit(st, [i |-> t.i, nput |-> t.nput, lost |-> t.lost],
                         t.actor, tq, t.ev, "consume")
    IN IF r.c.i > Len(tq)
       THEN Finish(LogSend(r.st, tq, r.c), t)
       ELSE [r.st EXCEPT !.task = @ \cup
                {[t EXCEPT !.pc = "wait_empty", !.i = r.c.i, !.nput = r.c.nput,
                           !.lost = r.c.lost, !.wq = tq[r.c.i]]}]

\* consume calls self.send_event(event): the targets are the plain outbound
\* queues.
Forward(st, t) == Fanout(st, t, OutboundQueues(t.actor))

\* consume calls self.send_error(event), lines 184-192: the targets are the
\* error queues; with none of them send_event is not called at all.
send_error(st, t) ==
    LET queues == ErrorQueues(t.actor)
    IN IF queues # <<>>
       THEN Fanout(st, [t EXCEPT !.err = TRUE], queues)
       ELSE Finish(st, t)

\* A send that waited for a full queue goes on with its own target list.
Resume(st, t) ==
    IF t.err THEN Fanout(st, t, ErrorQueues(t.actor)) ELSE Forward(st, t)

\* __do_consume, lines 259-262: consume raised QueueFull for downstream queue
\* dq: the event is put back at the head of its origin queue and the
\* greenlet waits until dq has space.
RescueAndWait(st, t, dq) ==
    [Rescue(st, t.q, t.ev) EXCEPT !.task = @ \cup
        {[t EXCEPT !.pc = "wait_free", !.wq = dq]}]

\* consume puts the event on its first outbound queue itself, with
\* queue.put, so that a full queue surfaces as QueueFull.
DirectPut(st, t) ==
    LET dq == OutboundQueues(t.actor)[1]
    IN IF Full(st.queue[dq])
       THEN RescueAndWait(st, t, dq)
       ELSE Finish(Put(st, dq, t.ev), t)

Kinds == {"ok", "slow", "raise", "setup_error", "forward", "relay", "direct",
          "send_error"}

\* A faulty variant of the handler below: the event is put back on its
\* origin queue.
OnExceptionRescues(st, t) ==
    Finish(Rescue([st EXCEPT !.errlog[t.actor] = Append(@, t.ev.id)], t.q, t.ev), t)

\* __do_consume, lines 263-266: consume raised something that is not
\* QueueFull (the SetupError of Actor.consume included): the traceback is
\* printed and handed to self.logger.error, and __do_consume returns.
OnException(st, t) ==
    Finish([st EXCEPT !.errlog[t.actor] = Append(@, t.ev.id)], t)

\* __do_consume, lines 257-266, from the call of the consume function to its
\* return or first suspension.  kind is what the user's consume does with
\* this event: return at once, do I/O first, raise, not exist (Actor.consume
\* raises SetupError), send the event on, do I/O and then send it on, hand it
\* to send_error, or put it downstream itself.
do_consume(st, t, kind) ==
    LET st1 == [st EXCEPT !.began[t.actor] = Append(@, t.ev.id)]
    IN CASE kind = "ok" -> Finish(st1, t)
         [] kind \in {"raise", "setup_error"} -> OnException(st1, t)
         [] kind = "slow" -> [st1 EXCEPT !.task = @ \cup {[t EXCEPT !.pc = "io"]}]
         [] kind = "relay" -> [st1 EXCEPT !.task = @ \cup {[t EXCEPT !.pc = "io_send"]}]
         [] kind = "forward" -> Forward(st1, t)
         [] kind = "send_error" -> send_error(st1, t)
         [] OTHER -> DirectPut(st1, t)

\* The consume worker takes everything the queue holds, spawning one
\* non-restartable __do_consume greenlet per event; get and spawn do not
\* yield, so the greenlets start only after the worker suspends, in the
\* order they were spawned.
RECURSIVE SpawnAll(_, _, _)
SpawnAll(st, a, q) ==
    IF st.queue[q].items = <<>> THEN st
    ELSE LET e == Head(st.queue[q].items)
             st1 == Get(st, q)
         IN SpawnAll([st1 EXCEPT !.task = @ \cup
                        {[NewTask(a, q, e, 0) EXCEPT !.seq = SpawnSeq(st1, a)]}],
                     a, q)

\* ----------------------------------------------------------------- Director
IsNull(a) == a \in NullActors

\* A faulty variant of the step below: the log actor never stands in for the
\* failed actor.
SetupFailedNoAlias(w, d) ==
    [w |-> connect_queue(w, d.failed_actor, "logs", d.log_actor, "inbox",
                         FALSE, FALSE).w,
     d |-> d]

\* _setup_default_connections, lines 144-147: with a registered log actor
\* and no registered failed actor, the log actor is the failed actor too;
\* else the failed actor's logs are connected to the log actor.
setup_failed_actor(w, d) ==
    IF IsNull(d.failed_actor) /\ ~IsNull(d.log_actor)
    THEN [w |-> w, d |-> [d EXCEPT !.failed_actor = d.log_actor]]
    ELSE [w |-> connect_queue(w, d.failed_actor, "logs", d.log_actor, "inbox",
                              FALSE, FALSE).w,
          d |-> d]

\* A faulty variant of the step below: only the logs queue is connected.
SetupActorLogsOnly(w, d, a) ==
    connect_queue(w, a, "logs", d.log_actor, "inbox", FALSE, FALSE).w

\* _setup_default_connections, lines 150-152: one registered actor's reserved
\* queues are connected to the sinks' inbox.
setup_actor(w, d, a) ==
    LET w1 == connect_queue(w, a, "logs", d.log_actor, "inbox", FALSE, FALSE).w
        w2 == connect_queue(w1, a, "metrics", d.metric_actor, "inbox", FALSE, FALSE).w
    IN connect_queue(w2, a, "failed", d.failed_actor, "inbox", FALSE, FALSE).w

\* _setup_default_connections, lines 154-155: the log and metric sinks log to
\* the log sink.
setup_sinks(w, d) ==
    LET w1 == connect_queue(w, d.log_actor, "logs", d.log_actor, "inbox",
                            FALSE, FALSE).w
    IN connect_queue(w1, d.metric_actor, "logs", d.log_actor, "inbox",
                     FALSE, FALSE).w

\* Director.start, lines 165-171: the order in which start() is called.
StartOrder(d, as) ==
    as \o <<d.log_actor, d.metric_actor>>
       \o (IF d.failed_actor # d.log_actor THEN <<d.failed_actor>> ELSE <<>>)

\* Director.stop, lines 183-188: the order in which stop() is called.
StopOrder(d, as) == as \o <<d.metric_actor, d.failed_actor, d.log_actor>>

\* RestartPool.join() returns once no greenlet of the actor's pool is alive:
\* its consume workers and the __do_consume greenlets they spawned.
Live(a) ==
    \/ \E i \in DOMAIN worker : worker[i].actor = a /\ worker[i].pc # "done"
    \/ \E t \in task : t.actor = a

\* A faulty variant of the test below: stop() does not wait for the pool.
JoinSkipped(a) == TRUE

\* Actor.stop, lines 161-162: self.threads.join() has returned for actor a.
Joined(a) == ~Live(a)

\* Actor.stop for the actors of todo, in order, up to the first that has to
\* wait: each gets its loop flag cleared (line 159); an actor with no live
\* greenlet is joined at once; an actor that defines post_hook enters it
\* (lines 164-166), and the hook may yield.  entered lists the actors whose
\* stop() was called in this step (joined: the head's call was made before).
RECURSIVE stop_actors(_, _, _, _)
stop_actors(lp, todo, hooks, joined) ==
    IF todo = <<>>
    THEN [loop |-> lp, todo |-> todo, pc |-> "stopped", entered |-> <<>>]
    ELSE LET lp1 == [lp EXCEPT ![Head(todo)] = FALSE]
             now == IF joined THEN <<>> ELSE <<Head(todo)>>
         IN IF ~joined /\ ~Joined(Head(todo))
            THEN [loop |-> lp1, todo |-> todo, pc |-> "stopping", entered |-> now]
            ELSE IF Head(todo) \in hooks
            THEN [loop |-> lp1, todo |-> todo, pc |-> "post_hook", entered |-> now]
            ELSE LET r == stop_actors(lp1, Tail(todo), hooks, FALSE)
                 IN [r EXCEPT !.entered = now \o @]

\* Director.__init__: the three Null sinks, not running.
NewDirector ==
    [pc |-> "init", todo |-> <<>>, log_actor |-> "null_logs",
     metric_actor |-> "null_metrics", failed_actor |-> "null_faileds",
     running |-> FALSE, block |-> FALSE, stops |-> <<>>]

\* Director.connect_queue(source, destination) with bare actors: the edge is
\* named after the other actor on each side.
Link(w, S, D) == connect_queue(w, S, D, D, S, FALSE, TRUE).w

\* ---------------------------------------------------------------- scenarios
NoCall == [S |-> NoActor, sn |-> "", D |-> NoActor, dn |-> "",
           error_queue |-> FALSE, check_existing |-> FALSE, raised |-> FALSE,
           had_source |-> FALSE, had_destination |-> FALSE]

Source == "a"

Idle(n, waits) ==
    [n |-> n, pc |-> "idle", i |-> 1, nput |-> 0, lost |-> 0, wq |-> NoQueue,
     waits |-> waits]

Wired(topology, size) ==
    CASE topology = "pair" -> Link(Constructed(size), "a", "b")
      [] topology = "chain" -> Link(Link(Constructed(size), "a", "b"), "b", "c")
      [] topology = "errors" ->
            connect_error_queue(Link(Constructed(size), "a", "b"),
                                "b", "c", "c", "b", TRUE).w
      [] OTHER -> Link(Link(Constructed(size), "a", "b"), "a", "c")

Sinks == [x \in Actors |-> {"ok"}]
NonBlocking == [x \in Actors |-> FALSE]

Scenario(topology, size, kb, kc, bb, order) ==
    [topology |-> topology,
     size |-> size,
     kinds |-> [Sinks EXCEPT !["b"] = kb, !["c"] = kc],
     blocking |-> [NonBlocking EXCEPT !["b"] = bb],
     order |-> order,
     log_actor |-> "null_logs",
     hooks |-> {},
     generate_metrics |-> FALSE]

Scenarios ==
    {Scenario("chain", QueueSize, {"forward"}, {"ok", "slow"}, FALSE, o)
        : o \in {<<"a", "b", "c">>, <<"c", "b", "a">>}}
    \cup {Scenario("chain", SmallQueueSize, {"direct"}, {"ok"}, FALSE, o)
        : o \in {<<"a", "b", "c">>, <<"c", "b", "a">>}}
    \cup {Scenario("fan", QueueSize, {"ok", "raise"}, {"forward"}, FALSE, o)
        : o \in {<<"a", "b", "c">>}}
    \cup {Scenario("pair", QueueSize, {"ok", "slow"}, {"ok"}, TRUE, o)
        : o \in {<<"a", "b">>, <<"b", "a">>}}
    \cup {Scenario("chain", QueueSize, {"relay"}, {"ok"}, FALSE, <<"a", "b", "c">>)}
    \cup {[Scenario("pair", QueueSize, {"setup_error"}, {"ok"}, FALSE, <<"a", "b">>)
              EXCEPT !.log_actor = "c"]}
    \cup {[Scenario("pair", QueueSize, {"ok", "slow"}, {"ok"}, FALSE, <<"a", "b">>)
              EXCEPT !.hooks = {"b"}]}

InitWith(c) ==
    /\ cfg = c
    /\ pool = Wired(c.topology, c.size).pool
    /\ queue = Wired(c.topology, c.size).queue
    /\ worker = Wired(c.topology, c.size).worker
    /\ call = NoCall
    /\ wired = {}
    /\ ncalls = 0
    /\ loop = [a \in Actors |-> TRUE]
    /\ run = [a \in Actors |-> FALSE]
    /\ task = {}
    /\ prod = Idle(0, 0)
    /\ dir = [NewDirector EXCEPT !.log_actor = c.log_actor]
    /\ began = [a \in Actors |-> <<>>]
    /\ sendLog = {}
    /\ discarded = {}
    /\ errlog = [a \in Actors |-> <<>>]

\* ------------------------------------------------- the wiring specification
WireSources == {"a", "b"}
WireDestinations == {"b", "c"}
WireSourceNames == {"outbox", "logs"}
WireDestinationNames == {"inbox", "a"}

Unwired == Scenario("none", QueueSize, {"ok"}, {"ok"}, FALSE, <<"a", "b", "c">>)

WireInit ==
    /\ cfg = Unwired
    /\ pool = Constructed(QueueSize).pool
    /\ queue = Constructed(QueueSize).queue
    /\ worker = Constructed(QueueSize).worker
    /\ call = NoCall
    /\ wired = {}
    /\ ncalls = 0
    /\ loop = [a \in Actors |-> TRUE]
    /\ run = [a \in Actors |-> FALSE]
    /\ task = {}
    /\ prod = Idle(0, 0)
    /\ dir = NewDirector
    /\ began = [a \in Actors |-> <<>>]
    /\ sendLog = {}
    /\ discarded = {}
    /\ errlog = [a \in Actors |-> <<>>]

Edge(S, sn, D, dn) == <<S, sn, D, dn>>

Called(r, S, sn, D, dn, error_queue, check_existing) ==
    /\ pool' = r.w.pool
    /\ queue' = r.w.queue
    /\ worker' = r.w.worker
    /\ call' = [S |-> S, sn |-> sn, D |-> D, dn |-> dn,
                error_queue |-> error_queue, check_existing |-> check_existing,
                raised |-> r.raised,
                had_source |-> SourceQueue(World, S, sn) # NoQueue,
                had_destination |-> DestinationQueue(World, D, dn) # NoQueue]
    /\ wired' = IF r.raised THEN wired ELSE wired \cup {Edge(S, sn, D, dn)}
    /\ ncalls' = ncalls + 1
    /\ UNCHANGED runvars

CallConnectQueue ==
    /\ ncalls < MaxCalls
    /\ \E S \in WireSources, D \in WireDestinations,
          sn \in WireSourceNames, dn \in WireDestinationNames,
          check_existing \in BOOLEAN :
          Called(connect_queue(World, S, sn, D, dn, FALSE, check_existing),
                 S, sn, D, dn, FALSE, check_existing)

CallConnectErrorQueue ==
    /\ ncalls < MaxCalls
    /\ \E S \in WireSources, D \in WireDestinations,
          sn \in WireSourceNames, dn \in WireDestinationNames,
          check_existing \in BOOLEAN :
          Called(connect_error_queue(World, S, sn, D, dn, check_existing),
                 S, sn, D, dn, TRUE, check_existing)

WireNext == CallConnectQueue \/ CallConnectErrorQueue

WireSpec == WireInit /\ [][WireNext]_vars

\* ------------------------------------- wiring through the Director
\* _parse_connect_arg gives queue_name None for a bare actor.
NoName == ""

\* Director.connect_queue, lines 88-91: the source's queue name, the
\* destination's actor name for a bare source.
SourceName(src, sarg, dst) == IF sarg = NoName THEN dst ELSE sarg

\* A faulty variant of the default below: a bare destination's queue is
\* named after the destination itself.
DestinationNamedAfterItself(src, dst, darg) == IF darg = NoName THEN dst ELSE darg

\* Director.connect_queue, lines 85-86: the destination's queue name, the
\* source's actor name for a bare destination.
DestinationName(src, dst, darg) == IF darg = NoName THEN src ELSE darg

\* A faulty variant of the call below: the actors are wired without the
\* check for existing queues.
DirectorConnectUnchecked(w, src, sarg, dst, darg, error_queue) ==
    connect_queue(w, src, SourceName(src, sarg, dst),
                  dst, DestinationName(src, dst, darg), error_queue, FALSE)

\* Director.connect_queue, lines 82-96, for one destination: the actors are
\* wired with Actor.connect_queue's default check_existing=True.
director_connect_queue(w, src, sarg, dst, darg, error_queue) ==
    connect_queue(w, src, SourceName(src, sarg, dst),
                  dst, DestinationName(src, dst, darg), error_queue, TRUE)

DirSourceArgs == {NoName, "outbox", "logs"}
DirDestinationArgs == {NoName, "inbox"}

\* The number of calls made on the Director before it is started.
MaxDirCalls == 2

\* One call of Director.connect_queue or Director.connect_error_queue
\* (error_queue=True) before start().
DirConnect(error_queue) ==
    /\ ncalls < MaxDirCalls
    /\ dir.pc = "init"
    /\ \E src \in WireSources, dst \in WireDestinations,
          sarg \in DirSourceArgs, darg \in DirDestinationArgs :
          LET r == director_connect_queue(World, src, sarg, dst, darg, error_queue)
              sn == SourceName(src, sarg, dst)
              dn == DestinationName(src, dst, darg)
          IN /\ pool' = r.w.pool
             /\ queue' = r.w.queue
             /\ worker' = r.w.worker
             /\ call' = [S |-> src, sn |-> sn, D |-> dst, dn |-> dn,
                         error_queue |-> error_queue, check_existing |-> TRUE,
                         raised |-> r.raised,
                         had_source |-> SourceQueue(World, src, sn) # NoQueue,
                         had_destination |-> DestinationQueue(World, dst, dn) # NoQueue,
                         sarg |-> sarg, darg |-> darg]
             /\ wired' = IF r.raised THEN wired ELSE wired \cup {Edge(src, sn, dst, dn)}
             /\ ncalls' = ncalls + 1
             /\ UNCHANGED runvars

DirConnectQueue == DirConnect(FALSE)
DirConnectErrorQueue == DirConnect(TRUE)

\* ------------------------------------------------- the running system: steps
Fixed == UNCHANGED <<pool, call, wired, ncalls, cfg>>

\* The other greenlets run only while the Director's greenlet is suspended
\* (in block() or join()) or has not begun.
Yielded == dir.pc \notin {"wiring", "starting"}

\* A faulty variant of the test below: the worker does not wait for the
\* started gate.
RunnableUngated(i) ==
    Yielded /\ worker[i].pc \in {"ready", "wait_run"}

\* __consumer, line 224: a worker runs when it is ready, having passed the
\* started gate (self.__run.wait()) once the gate is set.
Runnable(i) ==
    /\ Yielded
    /\ \/ worker[i].pc = "ready"
       \/ worker[i].pc = "wait_run" /\ run[worker[i].actor]

\* __consumer, lines 225-238, queue empty: wait_until_content.
ConsumerWait(i) ==
    /\ Runnable(i) /\ loop[worker[i].actor]
    /\ queue[worker[i].q].items = <<>>
    /\ Commit([Store EXCEPT !.worker[i].pc = "wait_content"])
    /\ UNCHANGED <<loop, run, dir>> /\ Fixed

\* __consumer, lines 225-238, blocking_consume=False: one greenlet is spawned
\* per queued event, then the worker waits for content.
ConsumerSpawn(i) ==
    /\ Runnable(i) /\ loop[worker[i].actor]
    /\ queue[worker[i].q].items # <<>>
    /\ ~cfg.blocking[worker[i].actor]
    /\ Commit([SpawnAll(Store, worker[i].actor, worker[i].q)
                 EXCEPT !.worker[i].pc = "wait_content"])
    /\ UNCHANGED <<loop, run, dir>> /\ Fixed

\* __consumer, lines 225-238, blocking_consume=True: the worker runs
\* __do_consume itself and goes on only when it has returned.
ConsumerBlocking(i) ==
    /\ Runnable(i) /\ loop[worker[i].actor]
    /\ queue[worker[i].q].items # <<>>
    /\ cfg.blocking[worker[i].actor]
    /\ \E kind \in cfg.kinds[worker[i].actor] :
          Commit(do_consume([Get(Store, worker[i].q) EXCEPT !.worker[i].pc = "inline"],
                            NewTask(worker[i].actor, worker[i].q,
                                    Head(queue[worker[i].q].items), i),
                            kind))
    /\ UNCHANGED <<loop, run, dir>> /\ Fixed

\* __consumer, lines 240-250: with the loop flag down the worker spawns a
\* greenlet for every event left, whatever blocking_consume says, and exits.
ConsumerDrain(i) ==
    /\ Runnable(i) /\ ~loop[worker[i].actor]
    /\ Commit([SpawnAll(Store, worker[i].actor, worker[i].q)
                 EXCEPT !.worker[i].pc = "done"])
    /\ UNCHANGED <<loop, run, dir>> /\ Fixed

Without(t) == [Store EXCEPT !.task = @ \ {t}]

\* A spawned __do_consume greenlet starts and calls consume.
ConsumeBegin(t) ==
    /\ Yielded /\ t.pc = "spawned" /\ t.seq = Len(began[t.actor]) + 1
    /\ \E kind \in cfg.kinds[t.actor] : Commit(do_consume(Without(t), t, kind))
    /\ UNCHANGED <<loop, run, dir>> /\ Fixed

\* The consume function's I/O completes and consume returns.
ConsumeReturn(t) ==
    /\ Yielded /\ t.pc = "io"
    /\ Commit(Finish(Without(t), t))
    /\ UNCHANGED <<loop, run, dir>> /\ Fixed

\* The consume function's I/O completes and it calls self.send_event(event).
ConsumeSend(t) ==
    /\ Yielded /\ t.pc = "io_send"
    /\ Commit(Forward(Without(t), t))
    /\ UNCHANGED <<loop, run, dir>> /\ Fixed

\* __submit inside a consume call resumes from wait_until_empty.
ConsumeRetry(t) ==
    /\ Yielded /\ t.pc = "retry"
    /\ Commit(Resume(Without(t), t))
    /\ UNCHANGED <<loop, run, dir>> /\ Fixed

\* __do_consume resumes from wait_until_free and returns.
RescueDone(t) ==
    /\ Yielded /\ t.pc = "freed"
    /\ Commit(Finish(Without(t), t))
    /\ UNCHANGED <<loop, run, dir>> /\ Fixed

\* send_event(event), lines 175-182, called on the source actor by an
\* outside greenlet (as WSGI.application does per request).
Send(p) ==
    LET tq == OutboundQueues(Source)
        r == loop_submit(Store, [i |-> p.i, nput |-> p.nput, lost |-> p.lost],
                         Source, tq, NewEvent(p.n + 1), "inject")
    IN IF r.c.i > Len(tq)
       THEN Commit([LogSend(r.st, tq, r.c) EXCEPT !.prod = Idle(p.n + 1, p.waits)])
       ELSE Commit([r.st EXCEPT !.prod =
                [p EXCEPT !.pc = "wait_empty", !.i = r.c.i, !.nput = r.c.nput,
                          !.lost = r.c.lost, !.wq = tq[r.c.i],
                          !.waits = @ + 1]])

Inject ==
    /\ Yielded /\ prod.pc = "idle" /\ prod.n < MaxEvents /\ run[Source]
    /\ Send(prod)
    /\ UNCHANGED <<loop, run, dir>> /\ Fixed

InjectRetry ==
    /\ Yielded /\ prod.pc = "retry"
    /\ Send(prod)
    /\ UNCHANGED <<loop, run, dir>> /\ Fixed

DirectorFrame == UNCHANGED <<call, wired, ncalls, cfg, loop, task, prod, began,
                             sendLog, discarded, errlog>>

\* Director.start, lines 162-163 and 144-147: the Director is running and
\* the default wiring begins.  Until start() reaches block() the Director's
\* greenlet does not yield.
DirectorStart ==
    /\ dir.pc = "init"
    /\ LET r == setup_failed_actor(World, dir)
       IN /\ pool' = r.w.pool
          /\ queue' = r.w.queue
          /\ worker' = r.w.worker
          /\ dir' = [r.d EXCEPT !.pc = "wiring", !.running = TRUE, !.todo = cfg.order]
    /\ UNCHANGED run /\ DirectorFrame

\* _setup_default_connections, lines 149-152, for the next registered actor.
SetupActor ==
    /\ dir.pc = "wiring" /\ dir.todo # <<>>
    /\ LET w == setup_actor(World, dir, Head(dir.todo))
       IN /\ pool' = w.pool
          /\ queue' = w.queue
          /\ worker' = w.worker
    /\ dir' = [dir EXCEPT !.todo = Tail(@)]
    /\ UNCHANGED run /\ DirectorFrame

\* _setup_default_connections, lines 154-155; the wiring is complete.
SetupSinks ==
    /\ dir.pc = "wiring" /\ dir.todo = <<>>
    /\ LET w == setup_sinks(World, dir)
       IN /\ pool' = w.pool
          /\ queue' = w.queue
          /\ worker' = w.worker
    /\ dir' = [dir EXCEPT !.pc = "starting", !.todo = StartOrder(dir, cfg.order)]
    /\ UNCHANGED run /\ DirectorFrame

\* Actor.start, line 152: the started gate is set and start() returns.
\* After the last actor Director.start waits in block().
SetStarted ==
    /\ run' = [run EXCEPT ![Head(dir.todo)] = TRUE]
    /\ dir' = [dir EXCEPT !.todo = Tail(@),
                          !.pc = IF Tail(dir.todo) = <<>> THEN "running"
                                 ELSE "starting"]
    /\ UNCHANGED <<pool, queue>> /\ DirectorFrame

\* Actor.start, lines 142-152, on the next actor: the metric emitter is
\* spawned if the actor generates metrics (lines 145-146).  An actor that
\* defines pre_hook enters it (lines 148-150), and the hook may yield
\* (WSGI.pre_hook starts a server); the others have their gate set at once.
StartActor ==
    /\ dir.pc = "starting"
    /\ worker' = IF GenerateMetrics THEN SpawnEmitter(worker, Head(dir.todo))
                 ELSE worker
    /\ IF Head(dir.todo) \in cfg.hooks
       THEN /\ dir' = [dir EXCEPT !.pc = "pre_hook"]
            /\ UNCHANGED <<pool, queue, run>> /\ DirectorFrame
       ELSE SetStarted

\* pre_hook returns and start() goes on to set the gate.
PreHookReturns ==
    /\ dir.pc = "pre_hook"
    /\ UNCHANGED worker
    /\ SetStarted

\* __metric_emitter, lines 271-272: the started gate is set.
EmitterRun(i) ==
    /\ Yielded /\ worker[i].pc = "m_wait_run" /\ run[worker[i].actor]
    /\ Commit(emit_round(Store, i))
    /\ UNCHANGED <<loop, run, dir>> /\ Fixed

\* __metric_emitter, line 282: sleep(self.frequency) is over.
EmitterWake(i) ==
    /\ Yielded /\ worker[i].pc = "m_sleep"
    /\ ~loop[worker[i].actor] \/ worker[i].n < MaxRounds
    /\ Commit(emit_round(Store, i))
    /\ UNCHANGED <<loop, run, dir>> /\ Fixed

\* __metric_emitter, line 281: wait_until_empty returns, the put is retried.
EmitterRetry(i) ==
    /\ Yielded /\ worker[i].pc = "m_ready"
    /\ Commit(emit(Store, i, worker[i].k))
    /\ UNCHANGED <<loop, run, dir>> /\ Fixed

Stopping(r) ==
    /\ loop' = r.loop
    /\ dir' = [dir EXCEPT !.block = TRUE, !.todo = r.todo, !.pc = r.pc,
                          !.running = (r.todo # <<>>),
                          !.stops = @ \o r.entered]
    /\ UNCHANGED <<pool, queue, worker, call, wired, ncalls, cfg, run, task, prod,
                   began, sendLog, discarded, errlog>>

\* Director.stop, called by a signal or by the program while running: the
\* Director's gate is set first (line 182), then the actors are stopped.
DirectorStop ==
    /\ dir.pc = "running"
    /\ Stopping(stop_actors(loop, StopOrder(dir, cfg.order), cfg.hooks, FALSE))

\* The join() of the actor being stopped returns; stop goes on.
JoinReturns ==
    /\ dir.pc = "stopping"
    /\ Joined(Head(dir.todo))
    /\ Stopping(stop_actors(loop, dir.todo, cfg.hooks, TRUE))

\* post_hook returns, Actor.stop returns, Director.stop goes on.
PostHookReturns ==
    /\ dir.pc = "post_hook"
    /\ Stopping(stop_actors(loop, Tail(dir.todo), cfg.hooks, FALSE))

Greenlets ==
    \/ \E i \in DOMAIN worker : ConsumerWait(i)
    \/ \E i \in DOMAIN worker : ConsumerSpawn(i)
    \/ \E i \in DOMAIN worker : ConsumerBlocking(i)
    \/ \E i \in DOMAIN worker : ConsumerDrain(i)
    \/ \E t \in task : ConsumeBegin(t)
    \/ \E t \in task : ConsumeReturn(t)
    \/ \E t \in task : ConsumeSend(t)
    \/ \E t \in task : ConsumeRetry(t)
    \/ \E t \in task : RescueDone(t)
    \/ Inject
    \/ InjectRetry

Init == \E c \in Scenarios : InitWith(c)

DirectorStarts ==
    DirectorStart \/ SetupActor \/ SetupSinks \/ StartActor \/ PreHookReturns

Next == Greenlets \/ DirectorStarts \/ DirectorStop \/ JoinReturns \/ PostHookReturns

Spec == Init /\ [][Next]_vars

\* gevent runs every greenlet that is ready, and a join() whose greenlets are
\* all dead returns; when a stop is requested is up to the environment.
Fairness ==
    /\ WF_vars(Greenlets)
    /\ WF_vars(DirectorStarts)
    /\ WF_vars(JoinReturns)
    /\ WF_vars(PostHookReturns)

FairSpec == Init /\ [][Next]_vars /\ Fairness

\* The backpressure scenario: one producer, one bounded queue, one consumer
\* that may be slow or raise, blocking or not, with a pre_hook, and no stop
\* request.
RunInit ==
    \E bb \in BOOLEAN :
        InitWith([Scenario("pair", QueueSize, {"ok", "slow", "raise"}, {"ok"}, bb,
                           <<"a", "b">>) EXCEPT !.hooks = {"b"}])

RunNext ==
    \/ \E i \in DOMAIN worker : ConsumerWait(i)
    \/ \E i \in DOMAIN worker : ConsumerSpawn(i)
    \/ \E i \in DOMAIN worker : ConsumerBlocking(i)
    \/ \E t \in task : ConsumeBegin(t)
    \/ \E t \in task : ConsumeReturn(t)
    \/ Inject
    \/ InjectRetry
    \/ DirectorStart
    \/ SetupActor
    \/ SetupSinks
    \/ StartActor
    \/ PreHookReturns

RunSpec == RunInit /\ [][RunNext]_vars /\ WF_vars(RunNext)

\* The congested pipeline a -> b -> c with queues of capacity SmallQueueSize,
\* whose middle actor puts each event on its outbound queue itself, and no
\* stop request; every greenlet that can run eventually runs.
RescueInit ==
    InitWith(Scenario("chain", SmallQueueSize, {"direct"}, {"ok"}, FALSE,
                      <<"a", "b", "c">>))

RescueNext ==
    \/ \E i \in DOMAIN worker : ConsumerWait(i)
    \/ \E i \in DOMAIN worker : ConsumerSpawn(i)
    \/ \E t \in task : ConsumeBegin(t)
    \/ \E t \in task : RescueDone(t)
    \/ Inject
    \/ InjectRetry
    \/ DirectorStart
    \/ SetupActor
    \/ SetupSinks
    \/ StartActor

RescueSpec == RescueInit /\ [][RescueNext]_vars /\ WF_vars(RescueNext)

\* ------------------------------------------------------ claims on the wiring
\* The entry of S's outbound side under sn: the reserved mapping, else the
\* plain outbound mapping, else (for an error queue) the error mapping.
OutboundEntry(S, sn) ==
    IF pool[S].reserved[sn] # NoQueue THEN pool[S].reserved[sn]
    ELSE IF pool[S].outbound[sn] # NoQueue THEN pool[S].outbound[sn]
    ELSE pool[S].error[sn]

\* Whether S holds a queue under sn in any of its outbound-side mappings.
HoldsSource(S, sn) ==
    \/ pool[S].reserved[sn] # NoQueue
    \/ pool[S].outbound[sn] # NoQueue
    \/ pool[S].error[sn] # NoQueue

\* C1: after a successful S.connect_queue(sn, D, dn), in any of the four
\* wiring cases and with or without check_existing, the Queue under sn on S's
\* outbound side is the same object as the Queue under dn in D's inbound
\* mapping (for a plain call: the reserved or plain outbound mapping).
C1_SameQueueObject ==
    (call.S # NoActor /\ ~call.raised) =>
        /\ pool[call.D].inbound[call.dn] # NoQueue
        /\ OutboundEntry(call.S, call.sn) = pool[call.D].inbound[call.dn]
        /\ ~call.error_queue =>
              pool[call.S][SourceScope(World, call.S, call.sn)][call.sn]
                  = pool[call.D].inbound[call.dn]

\* C1 witness: a call without check_existing found both endpoints present
\* and reconciled them.
C1_Witness ==
    /\ call.S # NoActor /\ ~call.raised /\ ~call.check_existing
    /\ call.had_source /\ call.had_destination
    /\ call.S # call.D

\* C2: a call with check_existing=true for an edge that was wired before
\* raises QueueConnected and changes no queue mapping, no queue and no
\* consumer worker.
C2_SecondWiringRaises ==
    [][(/\ ncalls' = ncalls + 1
        /\ call'.check_existing
        /\ Edge(call'.S, call'.sn, call'.D, call'.dn) \in wired)
       => (call'.raised /\ pool' = pool /\ queue' = queue /\ worker' = worker)]_vars

\* C2 witness: the second wiring of an error edge was refused.
C2_Witness ==
    /\ call.raised /\ call.check_existing /\ call.error_queue
    /\ Edge(call.S, call.sn, call.D, call.dn) \in wired
    /\ ~call.had_source

\* C3: with check_existing=true the call raises exactly when the producer
\* already holds a queue under sn (reserved, plain outbound or error) or the
\* consumer already holds an inbound queue under dn.
C3_RaisesOnAnyEndpoint ==
    [][(ncalls' = ncalls + 1 /\ call'.check_existing) =>
         (call'.raised <=> (\/ HoldsSource(call'.S, call'.sn)
                            \/ pool[call'.D].inbound[call'.dn] # NoQueue))]_vars

\* ------------------------------------------------- claims on the running system
InboundQueues(a) == {pool[a].inbound[n] : n \in Names} \ {NoQueue}

\* The consume calls of actor a that have begun and not returned.
InConsume(a) ==
    {t \in task : t.actor = a /\ t.pc \in {"io", "io_send", "wait_empty", "retry"}}

NonDecreasing(s) == \A i, j \in DOMAIN s : i < j => s[i] <= s[j]

\* C4: no bounded queue ever holds more events than its capacity, under any
\* interleaving of put, get and rescue.
C4_QueueNeverOverCapacity ==
    \A q \in DOMAIN queue :
        queue[q].cap > 0 => Len(queue[q].items) <= queue[q].cap

\* C5: every finished send_event call that fanned out to N target queues
\* enqueued exactly N events, one per target.
C5_OneEventPerTarget ==
    \A r \in sendLog : r.put = r.targets

\* C6: in an actor with blocking_consume=true, consume calls do not overlap
\* and begin in the order the events were enqueued, the drain phase after
\* stop() included.
C6_BlockingConsumeInOrder ==
    \A a \in Actors : cfg.blocking[a] =>
        /\ Cardinality(InConsume(a)) <= 1
        /\ NonDecreasing(began[a])

\* C7: once Director.stop() has returned, every inbound queue of every actor
\* is empty.
C7_DrainedAfterStop ==
    dir.pc = "stopped" =>
        \A a \in Actors : \A q \in InboundQueues(a) : queue[q].items = <<>>

\* C9: no event handed to send_event by a consume call is given up on
\* without being put on its target queue, shutdown included.
C9_NoEventDiscarded ==
    \A d \in discarded : d.by # "consume"

\* C8: once Director.stop() is requested it returns.
C8_StopReturns == (dir.pc = "stopping") ~> (dir.pc = "stopped")

NoDuplicates(s) == \A i, j \in DOMAIN s : i # j => s[i] # s[j]

AllConsumed ==
    /\ Len(began["b"]) = MaxEvents
    /\ task = {}
    /\ queue[pool["b"].inbound["a"]].items = <<>>

\* C10: with no stop requested, K events sent through a bounded queue of
\* capacity C < K reach the consumer without loss or duplication: no event
\* is consumed twice, and eventually exactly K consume calls were made.
C10_BackpressureLosesNothing ==
    /\ [](NoDuplicates(began["b"]) /\ Len(began["b"]) <= prod.n)
    /\ <>[]AllConsumed

\* C10 witness: the producer had to wait on the full queue and every event
\* was consumed.
C10_Witness == AllConsumed /\ prod.waits > 0 /\ QueueSize < MaxEvents

\* ------------------------------------------------------- pipeline and errors
\* C11: in the linear pipeline a -> b -> c with default options, whose middle
\* actor does I/O before sending each event on, the sink's consume calls
\* begin in the order the events were injected, each event at most once;
\* stated for the time the graph is running.
C11_PipelineFifo ==
    (cfg.topology = "chain" /\ cfg.kinds["b"] = {"relay"} /\ dir.pc = "running") =>
        /\ NonDecreasing(began["c"])
        /\ NoDuplicates(began["c"])

\* How many times event n is downstream of actor a on the queue q that a
\* feeds into actor d: waiting in q, taken from q by d's worker, or consumed
\* by d.
TimesDownstream(n, q, d) ==
    Cardinality({i \in DOMAIN queue[q].items : queue[q].items[i].id = n})
        + Cardinality({t \in task : t.actor = d /\ t.pc = "spawned" /\ t.ev.id = n})
        + Cardinality({i \in DOMAIN began[d] : began[d][i] = n})

\* Event n sits rescued in the inbound queue q.
RescuedIn(n, q) ==
    \E i \in DOMAIN queue[q].items :
        queue[q].items[i].id = n /\ queue[q].items[i].tries > 0

\* C12: an event whose consume call failed with QueueFull and was rescued to
\* its origin queue is delivered downstream by the retry, exactly once: it is
\* never downstream twice, and once rescued it does get downstream.
C12_RescuedDeliveredOnce ==
    /\ [](\A n \in 1..MaxEvents :
            TimesDownstream(n, pool["c"].inbound["b"], "c") <= 1)
    /\ \A n \in 1..MaxEvents :
          RescuedIn(n, pool["b"].inbound["a"])
              ~> (TimesDownstream(n, pool["c"].inbound["b"], "c") = 1)

\* ---------------------------------------------------- claims on the Director
\* The actors registered with register_actor.
Registered == {cfg.order[i] : i \in DOMAIN cfg.order}

\* Actor a's reserved queue under name is the inbox inbound queue of sink.
ReservedGoesTo(a, name, sink) ==
    /\ pool[sink].inbound["inbox"] # NoQueue
    /\ pool[a].reserved[name] = pool[sink].inbound["inbox"]

\* Director.start has called start() on every actor.
StartDone == dir.pc \notin {"init", "wiring", "starting", "pre_hook"}

\* C13: from the moment Director.start() calls start() on the first actor,
\* every registered actor's reserved logs, metrics and failed queues are the
\* inbox inbound queues of the log, metric and failed sinks.
C13_WiredBeforeFirstStart ==
    dir.pc \in {"starting", "pre_hook"} =>
        \A a \in Registered :
            /\ ReservedGoesTo(a, "logs", dir.log_actor)
            /\ ReservedGoesTo(a, "metrics", dir.metric_actor)
            /\ ReservedGoesTo(a, "failed", dir.failed_actor)

\* C13 witness: three registered actors are wired and start() is about to be
\* called on the first of them.
C13_Witness ==
    /\ dir.pc = "starting" /\ dir.todo = StartOrder(dir, cfg.order)
    /\ Cardinality(Registered) = 3
    /\ \A a \in Actors : ~run[a]

\* C14: with a log sink registered and no failed sink registered, after
\* Director.start() every registered actor's reserved failed queue is the log
\* sink's inbox inbound queue.
C14_FailedGoesToLogSink ==
    (StartDone /\ ~IsNull(cfg.log_actor)) =>
        \A a \in Registered : ReservedGoesTo(a, "failed", cfg.log_actor)

\* C14 witness: started with a registered log sink standing in for the
\* failed sink.
C14_Witness ==
    /\ dir.pc = "running" /\ ~IsNull(cfg.log_actor)
    /\ dir.failed_actor = cfg.log_actor
    /\ Cardinality(Registered) >= 2

\* C15: the Director's block gate is set only once stop() has returned for
\* every user actor and for the metric, failed and log sinks.
C15_GateSetAfterActorsStopped ==
    dir.block => dir.pc = "stopped"

\* C16: a send_event call with no explicit queue on an actor that has no
\* outbound queue raises NoConnectedQueues to its caller.
C16_NoTargetsRaises ==
    \A r \in sendLog : r.targets = 0 => r.raised

\* C17: in an actor without a consume implementation the SetupError of the
\* first dispatch is fatal: no second event is dispatched.
C17_SetupErrorIsFatal ==
    \A a \in Actors : cfg.kinds[a] = {"setup_error"} => Len(began[a]) <= 1

\* Event n is held somewhere: in a queue or by a __do_consume greenlet.
Held(n) ==
    \/ \E q \in DOMAIN queue : \E i \in DOMAIN queue[q].items :
          queue[q].items[i].id = n
    \/ \E t \in task : t.ev.id = n

\* C18: an event whose consume call raised (anything but QueueFull) is logged
\* and dropped: it is in no queue afterwards and is not consumed again; and
\* the worker goes on, so that every event sent is consumed, with
\* blocking_consume on and off.
C18_RaiseDropsEventWorkerContinues ==
    /\ [](\A i \in DOMAIN errlog["b"] : ~Held(errlog["b"][i]))
    /\ [](NoDuplicates(began["b"]) /\ NoDuplicates(errlog["b"]))
    /\ <>[](Len(began["b"]) = MaxEvents)

\* C18 witness: in a blocking actor the first consume call raised and the
\* later events were consumed all the same.
C18_Witness ==
    /\ cfg.blocking["b"]
    /\ errlog["b"] # <<>> /\ errlog["b"][1] = 1
    /\ Len(began["b"]) = MaxEvents /\ Len(errlog["b"]) < MaxEvents

\* ------------------------------------------------------- claims on the hooks
\* C19: until start() has set an actor's started gate, which it does after
\* pre_hook has returned, no consume call of the actor has begun and none of
\* its workers has left the gate, so nothing was dequeued.
C19_NothingConsumedBeforePreHookReturns ==
    \A a \in Actors : ~run[a] =>
        /\ began[a] = <<>>
        /\ \A t \in task : t.actor # a
        /\ \A i \in DOMAIN worker : worker[i].actor = a => worker[i].pc = "wait_run"

\* C19 witness: actor b is inside pre_hook while events wait in its inbound
\* queue.
C19_Witness ==
    /\ dir.pc = "pre_hook" /\ Head(dir.todo) = "b"
    /\ Len(queue[pool["b"].inbound["a"]].items) >= 2

\* Actor a's post_hook has begun (and maybe returned).
PostHookBegun(a) ==
    /\ a \in cfg.hooks
    /\ \/ dir.pc = "post_hook" /\ Head(dir.todo) = a
       \/ /\ dir.pc \in {"stopping", "post_hook", "stopped"}
          /\ \A i \in DOMAIN dir.todo : dir.todo[i] # a

\* C20: once an actor's post_hook has begun, every greenlet of its pool has
\* exited, the __do_consume greenlets of the drain phase included: no
\* consume call of the actor is in progress or begins later.
C20_PostHookAfterPoolExited ==
    \A a \in Actors : PostHookBegun(a) =>
        /\ \A t \in task : t.actor # a
        /\ \A i \in DOMAIN worker : worker[i].actor = a => worker[i].pc = "done"

\* C20 witness: actor b is inside post_hook after consume calls were made.
C20_Witness ==
    /\ dir.pc = "post_hook" /\ Head(dir.todo) = "b"
    /\ Len(began["b"]) >= 2

\* Director.__init__, lines 34-35, makes Director.stop the handler of SIGINT
\* and SIGTERM: a signal that arrives after the wiring and before start()
\* runs stop() on actors whose consumers wait for the started gate.
SignalStop ==
    /\ dir.pc = "init"
    /\ Stopping(stop_actors(loop, StopOrder(dir, cfg.order), cfg.hooks, FALSE))

\* The pair a -> b of RunInit with stop requests: by a signal before
\* start(), or once the Director runs.
SignalNext ==
    \/ RunNext
    \/ \E i \in DOMAIN worker : ConsumerDrain(i)
    \/ SignalStop
    \/ DirectorStop
    \/ JoinReturns
    \/ PostHookReturns

\* Every greenlet that can run eventually runs, a join() whose greenlets are
\* all dead returns, a post_hook returns; when a stop is requested is up to
\* the environment.
SignalSpec ==
    /\ RunInit /\ [][SignalNext]_vars
    /\ WF_vars(RunNext)
    /\ WF_vars(\E i \in DOMAIN worker : ConsumerDrain(i))
    /\ WF_vars(JoinReturns)
    /\ WF_vars(PostHookReturns)

\* The pipeline a -> b whose middle actor hands every event to send_error,
\* with c wired behind b either as a plain outbound queue or as an error
\* queue of capacity SmallQueueSize, and no stop request.
ErrorInit ==
    \E topology \in {"chain", "errors"} :
        InitWith(Scenario(topology, SmallQueueSize, {"send_error"}, {"ok"}, FALSE,
                          <<"a", "b", "c">>))

ErrorNext ==
    \/ \E i \in DOMAIN worker : ConsumerWait(i)
    \/ \E i \in DOMAIN worker : ConsumerSpawn(i)
    \/ \E t \in task : ConsumeBegin(t)
    \/ \E t \in task : ConsumeRetry(t)
    \/ Inject
    \/ InjectRetry
    \/ DirectorStart
    \/ SetupActor
    \/ SetupSinks
    \/ StartActor

ErrorSpec == ErrorInit /\ [][ErrorNext]_vars

\* The pair a -> b with queues of capacity SmallQueueSize under a Director
\* created with or without generate_metrics, from start() on, with no stop
\* request.
MetricInit ==
    \E gm \in BOOLEAN :
        InitWith([Scenario("pair", SmallQueueSize, {"ok"}, {"ok"}, FALSE,
                           <<"a", "b">>) EXCEPT !.generate_metrics = gm])

MetricNext ==
    \/ \E i \in DOMAIN worker : ConsumerWait(i)
    \/ \E i \in DOMAIN worker : ConsumerSpawn(i)
    \/ \E i \in DOMAIN worker : EmitterRun(i)
    \/ \E i \in DOMAIN worker : EmitterWake(i)
    \/ \E i \in DOMAIN worker : EmitterRetry(i)
    \/ \E t \in task : ConsumeBegin(t)
    \/ Inject
    \/ InjectRetry
    \/ DirectorStart
    \/ SetupActor
    \/ SetupSinks
    \/ StartActor

MetricSpec == MetricInit /\ [][MetricNext]_vars

\* Wiring through the Director, then the default wiring of start().
DirNext ==
    \/ DirConnectQueue
    \/ DirConnectErrorQueue
    \/ DirectorStart
    \/ SetupActor
    \/ SetupSinks
    \/ StartActor

DirSpec == WireInit /\ [][DirNext]_vars

\* ------------------------------------------- claims on the Director's wiring
\* The actors that hold queue q in their inbound mapping, and those that
\* hold it in their plain outbound or error mapping.
InboundHolders(q) == {a \in Actors : \E n \in Names : pool[a].inbound[n] = q}
OutboundHolders(q) ==
    {a \in Actors : \E n \in Names : pool[a].outbound[n] = q \/ pool[a].error[n] = q}

\* C21: whatever was wired through the Director, by connect_queue, by
\* connect_error_queue and by the default wiring of start(), every Queue is
\* in the inbound mapping of at most one actor and in the outbound or error
\* mapping of at most one actor.
C21_OneProducerOneConsumer ==
    \A q \in DOMAIN queue :
        /\ Cardinality(InboundHolders(q)) <= 1
        /\ Cardinality(OutboundHolders(q)) <= 1

\* C21 witness: the Director has started after a plain edge and an error
\* edge were wired, and a call was refused.
C21_Witness ==
    /\ dir.pc = "running" /\ ncalls = MaxDirCalls
    /\ Cardinality(wired) = 2
    /\ \E a \in UserActors, n \in Names : pool[a].error[n] # NoQueue
    /\ \E a \in UserActors, n \in Names : pool[a].outbound[n] # NoQueue

\* C24: after a successful Director.connect_queue(src, dst) the queue is in
\* src's outbound mapping under dst's name and in dst's inbound mapping under
\* src's name when both are bare actors; a queue name given on one side
\* replaces the default on that side only.
C24_EdgeNamedAfterOtherActor ==
    (call.S # NoActor /\ ~call.raised /\ ~call.error_queue) =>
        LET sn == IF call.sarg = NoName THEN call.D ELSE call.sarg
            dn == IF call.darg = NoName THEN call.S ELSE call.darg
        IN /\ pool[call.D].inbound[dn] # NoQueue
           /\ pool[call.S].outbound[sn] = pool[call.D].inbound[dn]

\* C24 witness: two bare actors were connected.
C24_Witness ==
    /\ call.S # NoActor /\ ~call.raised /\ ~call.error_queue
    /\ call.sarg = NoName /\ call.darg = NoName /\ call.S # call.D
    /\ pool[call.S].outbound[call.D] = pool[call.D].inbound[call.S]
    /\ pool[call.S].outbound[call.D] # NoQueue

\* The consumer workers bound to queue q.
ConsumersOf(q) == {i \in DOMAIN worker : worker[i].q = q}

\* C27: whatever connect_queue calls were made, with check_existing true or
\* false, every Queue in an actor's inbound mapping has exactly one consumer
\* worker, a worker of that actor: none is without a consumer and none is
\* read by two workers.
C27_OneConsumerPerInboundQueue ==
    \A a \in Actors : \A q \in InboundQueues(a) :
        /\ Cardinality(ConsumersOf(q)) = 1
        /\ \A i \in ConsumersOf(q) : worker[i].actor = a

\* ------------------------------------------------ claims on Director.stop
\* How many times Actor.stop was called on actor a by Director.stop.
StopCalls(a) == Cardinality({i \in DOMAIN dir.stops : dir.stops[i] = a})

\* The actors the Director holds: the registered ones and its three sinks.
DirectorActors ==
    {cfg.order[i] : i \in DOMAIN cfg.order}
        \cup {dir.log_actor, dir.metric_actor, dir.failed_actor}

\* C25: in one Director.stop(), Actor.stop is called at most once on each
\* actor the Director holds, and exactly once when the stop is over, also
\* when the failed sink is the log sink.
C25_EachActorStoppedOnce ==
    \A a \in DirectorActors :
        /\ StopCalls(a) <= 1
        /\ dir.pc = "stopped" => StopCalls(a) = 1

\* Actor.stop is running on actor a: its join() has not returned.
InStop(a) == dir.pc = "stopping" /\ Head(dir.todo) = a

\* C26: Actor.stop() called on an actor that was never started, with its
\* consumer workers still waiting for the started gate, returns.
C26_StopOfUnstartedActorReturns ==
    \A a \in Actors : (InStop(a) /\ ~run[a]) ~> ~InStop(a)

\* ------------------------------------------------------ claims on send_error
\* Actor a has no error queue.
NoErrorQueue(a) == \A n \in Names : pool[a].error[n] = NoQueue

\* C23: send_error(e) with no explicit queue, on an actor that has no error
\* queue, puts e on no queue and raises nothing: the consume call that made
\* it just returns, whatever plain outbound queues the actor has.
C23_SendErrorWithoutErrorQueues ==
    [][\A t \in task :
          (/\ t.pc = "spawned" /\ t \notin task'
           /\ cfg.kinds[t.actor] = {"send_error"}
           /\ NoErrorQueue(t.actor))
          => /\ queue' = queue
             /\ errlog' = errlog
             /\ discarded' = discarded
             /\ task' = task \ {t}]_vars

\* C23 witness: b, which has a plain outbound queue to c and no error queue,
\* has handed every event to send_error and c has received nothing.
C23_Witness ==
    /\ cfg.kinds["b"] = {"send_error"} /\ NoErrorQueue("b")
    /\ OutboundQueues("b") # <<>>
    /\ Len(began["b"]) = MaxEvents
    /\ began["c"] = <<>> /\ task = {}
    /\ \A q \in InboundQueues("c") : queue[q].items = <<>>

\* -------------------------------------------------------- claims on metrics
\* The metric records put so far are on a queue, taken off it by a consume
\* worker, or consumed.
MetricSeen ==
    \/ \E q \in DOMAIN queue :
          \E k \in DOMAIN queue[q].items : IsMetric(queue[q].items[k])
    \/ \E t \in task : IsMetric(t.ev)
    \/ \E a \in Actors : \E k \in DOMAIN began[a] : began[a][k] = MetricId

\* C22: under a Director created with generate_metrics=false no actor ever
\* puts a metric record on a metrics queue while the system runs.
C22_NoMetricsWhenDisabled == ~cfg.generate_metrics => ~MetricSeen

\* C22 witness: without generate_metrics the pair was started and every
\* event was consumed, and no metric record was seen.
C22_Witness ==
    /\ ~cfg.generate_metrics /\ cfg.size = SmallQueueSize
    /\ dir.pc = "running" /\ Len(began["b"]) = MaxEvents
    /\ ~MetricSeen

====
